---- MODULE Spec2Model ----
(***************************************************************************)
(* Model of src/App.tsx: the ImageOCRPDFExporter component.                *)
(*                                                                         *)
(* The component holds three pieces of React state (selectedImages,        *)
(* extractedTexts, loading) and three handlers (pickImages, exportToPDF,   *)
(* clearResults) wired to three controls.  Every `await` on a collaborator *)
(* (PermissionsAndroid.request, launchImageLibrary,                        *)
(* TextRecognition.recognize, RNHTMLtoPDF.convert) is a point where the    *)
(* handler yields to the event loop; the code between two such points runs *)
(* atomically and is one action here.  An `await` on something that is     *)
(* already settled (the non-android permission gate, Promise.all of        *)
(* settled promises, the void result of Clipboard.setString) resumes in a  *)
(* microtask, before any other event, so it does not split an action.      *)
(***************************************************************************)
EXTENDS Integers, Sequences, FiniteSets, TLC

VARIABLES
  platform,        \* Platform.OS
  selectedImages,  \* useState([])  line 21
  extractedTexts,  \* useState([])  line 22
  loading,         \* useState(false) line 23
  pc,              \* per handler invocation: the await it is suspended at
  readGranted,     \* per invocation: local readGranted of requestStoragePermission
  assets,          \* per invocation: local result.assets of pickImages
  done,            \* per invocation: indices whose processImage promise resolved
  event,           \* the last step taken (observation)
  effects          \* collaborator calls and notices made by the last step, in order

vars == <<platform, selectedImages, extractedTexts, loading, pc, readGranted,
          assets, done, event, effects>>

(***************************************************************************)
(* Bounds.                                                                 *)
(***************************************************************************)
\* handler invocations that can be suspended at the same time
MaxProcs == 2
\* images handed to generateHTMLContent in SpecCompose
MaxPages == 3
\* lines of an array result of recognize in SpecNormalize
MaxLines == 3

Procs == 1..MaxProcs

(***************************************************************************)
(* Data.                                                                   *)
(***************************************************************************)
Asset(u, t, b) == [uri |-> u, type |-> t, base64 |-> b]

ImgA == Asset("file:///a.jpg", "image/jpeg", "QUFB")
ImgB == Asset("file:///b.png", "image/png", "QkJC")
ImgC == Asset("file:///c.jpg", "image/jpeg", "Q0ND")
ImgD == Asset("file:///d.png", "image/png", "QUFB")

\* the photos of the library the picker shows in the controller specification
ImageSet == {ImgA, ImgB}
\* what generateHTMLContent is applied to in SpecCompose
AllImages == {ImgA, ImgB, ImgC, ImgD}

SeqsUpTo(S, n) == UNION {[1..k -> S] : k \in 0..n}
\* the selections of photos of S: each photo at most once, in any order
Selections(S) ==
  {as \in SeqsUpTo(S, Cardinality(S)) :
     \A i, j \in 1..Len(as) : as[i] = as[j] => i = j}

\* The shapes TextRecognition.recognize can resolve with.
OcrArray(ls) == [shape |-> "array", lines |-> ls, str |-> ""]
OcrString(s) == [shape |-> "string", lines |-> <<>>, str |-> s]
OcrOther == [shape |-> "other", lines |-> <<>>, str |-> ""]

\* The OCR engine as a function of the image: what recognize(uri) resolves
\* with when it does not fail.
Recognize(uri) ==
  CASE uri = "file:///a.jpg" -> OcrArray(<<"A", "B">>)
    [] uri = "file:///b.png" -> OcrString("C")
    [] uri = "file:///c.jpg" -> OcrArray(<<>>)
    [] OTHER -> OcrOther

PermissionResults == {"granted", "denied", "never_ask_again"}
FilePaths == {"/Download/images_1.pdf", "/Documents/images_2.pdf"}

Effect(k, a) == [kind |-> k, arg |-> a]

\* The notices, with their texts in ASCII (the source's are Vietnamese).
\* line 78
AlertPermission == Effect("alert", <<"Thong bao", "Ban can cap quyen de su dung tinh nang nay">>)
\* line 99
AlertPickError == Effect("alert", <<"Loi", "Co loi xay ra khi xu ly anh">>)
\* line 152
AlertNoImages == Effect("alert", <<"Thong bao", "Vui long chon it nhat mot anh">>)
\* line 182
AlertExportError == Effect("alert", <<"Loi", "Khong the tao file PDF">>)
\* lines 172-175
AlertSuccess(path) == Effect("alert", <<"Thanh cong", "File PDF da duoc luu tai:\n", path>>)

(***************************************************************************)
(* Pure functions.                                                         *)
(***************************************************************************)
RECURSIVE Join(_, _)
\* Array.prototype.join
Join(ls, sep) ==
  IF Len(ls) = 0 THEN ""
  ELSE IF Len(ls) = 1 THEN ls[1]
  ELSE ls[1] \o sep \o Join(Tail(ls), sep)

\* Normalize joining the lines with a space
NormalizeSpaces(results) ==
  IF results.shape = "array" THEN Join(results.lines, " ")
  ELSE IF results.shape = "string" THEN results.str
  ELSE ""

\* processImage, lines 66-67: the value returned for a resolved recognize
Normalize(results) ==
  IF results.shape = "array" THEN Join(results.lines, "\n")
  ELSE IF results.shape = "string" THEN results.str
  ELSE ""

\* processImage(uri) when recognize resolves
processImage(uri) == Normalize(Recognize(uri))

\* The document is the concatenation of these chunks: the literal parts of the
\* template strings and the interpolated values.
\* lines 107-110, 111, 112-121, 122, 123-127, 128-130: the head, rule by rule
HeadOpen == "<!DOCTYPE html><html><head><style>"
CssBody == "body { margin: 0; padding: 0; }"
CssPage == ".page { page-break-after: always; margin: 0; padding: 0; width: 100%; height: 100%; display: flex; justify-content: center; align-items: center; }"
CssPageLastChild == ".page:last-child { page-break-after: auto; }"
CssImg == "img { max-width: 100%; max-height: 100%; object-fit: contain; }"
HeadClose == "</style></head><body>"

\* the head without the rule that exempts the last page
HtmlHeadNoLastChild == <<HeadOpen, CssBody, CssPage, CssImg, HeadClose>>

\* lines 106-131: the first template string
HtmlHead == <<HeadOpen, CssBody, CssPage, CssPageLastChild, CssImg, HeadClose>>
PageOpen == "<div class=\"page\"><img src=\"data:"
PageMid == ";base64,"
PageClose == "\" /></div>"
HtmlTail == "</body></html>"

\* PageBlock with the payload taken from the wrong field of the asset
PageBlockUri(image) == <<PageOpen, image.type, PageMid, image.uri, PageClose>>

\* lines 134-138: what one forEach iteration appends
PageBlock(image) == <<PageOpen, image.type, PageMid, image.base64, PageClose>>

RECURSIVE AppendPages(_, _)
\* lines 133-139: selectedImages.forEach
AppendPages(html, images) ==
  IF images = <<>> THEN html
  ELSE AppendPages(html \o PageBlock(Head(images)), Tail(images))

\* generateHTMLContent, lines 105-147
generateHTMLContent(images) == AppendPages(HtmlHead, images) \o <<HtmlTail>>

(***************************************************************************)
(* Controller.                                                             *)
(***************************************************************************)
Init ==
  /\ platform \in {"android", "ios"}
  /\ selectedImages = <<>>
  /\ extractedTexts = <<>>
  /\ loading = FALSE
  /\ pc = [p \in Procs |-> "idle"]
  /\ readGranted = [p \in Procs |-> "none"]
  /\ assets = [p \in Procs |-> <<>>]
  /\ done = [p \in Procs |-> {}]
  /\ event = "init"
  /\ effects = <<>>

InFlight == {p \in Procs : pc[p] # "idle"}
Idle == {p \in Procs : pc[p] = "idle"}
\* a new handler invocation takes the first free slot
IsFree(p) == p \in Idle /\ \A q \in Idle : p <= q

\* the invocation ends: its locals are gone
Return(p) ==
  /\ pc' = [pc EXCEPT ![p] = "idle"]
  /\ readGranted' = [readGranted EXCEPT ![p] = "none"]
  /\ assets' = [assets EXCEPT ![p] = <<>>]
  /\ done' = [done EXCEPT ![p] = {}]

\* lines 82-88: the gate returned true
pickImagesGranted(p) ==
  /\ loading' = TRUE
  /\ pc' = [pc EXCEPT ![p] = "picker"]
  /\ readGranted' = [readGranted EXCEPT ![p] = "none"]
  /\ effects' = <<Effect("picker", <<>>)>>
  /\ UNCHANGED <<selectedImages, extractedTexts, assets, done>>

\* the gate returned false and pickImages goes on after its notice
pickImagesDeniedNoReturn(p) ==
  /\ loading' = TRUE
  /\ pc' = [pc EXCEPT ![p] = "picker"]
  /\ readGranted' = [readGranted EXCEPT ![p] = "none"]
  /\ effects' = <<AlertPermission, Effect("picker", <<>>)>>
  /\ UNCHANGED <<selectedImages, extractedTexts, assets, done>>

\* lines 77-80 and 100-101: the gate returned false
pickImagesDenied(p) ==
  /\ effects' = <<AlertPermission>>
  /\ loading' = FALSE
  /\ Return(p)
  /\ UNCHANGED <<selectedImages, extractedTexts>>

\* line 76 on: requestStoragePermission returned has
pickImagesAfterGate(p, has) ==
  IF has THEN pickImagesGranted(p) ELSE pickImagesDenied(p)

\* lines 74-76 with 25-37: pickImages up to its first suspension
pickImages(p) ==
  IF platform = "android"
  THEN /\ pc' = [pc EXCEPT ![p] = "permRead"]
       /\ effects' = <<Effect("permission", <<"READ_EXTERNAL_STORAGE">>)>>
       /\ UNCHANGED <<selectedImages, extractedTexts, loading, readGranted,
                      assets, done>>
  ELSE pickImagesAfterGate(p, TRUE)

\* the pick control without its disabled condition
PickNeverDisabled == FALSE

\* line 200: disabled={loading}
PickDisabled == loading

\* a press on a disabled control reaches no handler
Ignored ==
  /\ effects' = <<>>
  /\ UNCHANGED <<selectedImages, extractedTexts, loading, pc, readGranted,
                 assets, done>>

\* lines 197-207: a press on the pick control
PressPick ==
  /\ event' = "pressPick"
  /\ UNCHANGED platform
  /\ IF PickDisabled THEN Ignored
     ELSE \E p \in Procs : IsFree(p) /\ pickImages(p)

\* lines 28-37 resolved or threw: on to the second request, or to the catch
PermissionReadReturn(p, r) ==
  /\ pc[p] = "permRead"
  /\ event' = "permission"
  /\ UNCHANGED platform
  /\ IF r = "error"
     THEN pickImagesAfterGate(p, FALSE)
     ELSE /\ pc' = [pc EXCEPT ![p] = "permWrite"]
          /\ readGranted' = [readGranted EXCEPT ![p] = r]
          /\ effects' = <<Effect("permission", <<"WRITE_EXTERNAL_STORAGE">>)>>
          /\ UNCHANGED <<selectedImages, extractedTexts, loading, assets, done>>

\* the gate looking at the read request only
ReadGrantedOnly(r, w) == r = "granted"

\* lines 50-51
BothGranted(r, w) == r = "granted" /\ w = "granted"

\* lines 39-57 resolved or threw: requestStoragePermission returns
PermissionWriteReturn(p, w) ==
  /\ pc[p] = "permWrite"
  /\ event' = "permission"
  /\ UNCHANGED platform
  /\ pickImagesAfterGate(p, w # "error" /\ BothGranted(readGranted[p], w))

\* lines 92-94: the texts Promise.all resolves with, in the order of the assets
PromiseAllTexts(as) == [k \in 1..Len(as) |-> processImage(as[k].uri)]

\* the catch of pickImages without the finally
pickImagesCatchNoFinally(p) ==
  /\ effects' = <<AlertPickError>>
  /\ UNCHANGED loading
  /\ Return(p)

\* lines 97-101: the catch and the finally of pickImages
pickImagesCatch(p) ==
  /\ effects' = <<AlertPickError>>
  /\ loading' = FALSE
  /\ Return(p)

\* a result without assets handled as a failure of the picker
pickImagesNoAssetsAsError(p) ==
  /\ pickImagesCatch(p)
  /\ UNCHANGED <<selectedImages, extractedTexts>>

\* lines 90, 96 and 100-101: result.assets is not there, the if is skipped
pickImagesNoAssets(p) ==
  /\ effects' = <<>>
  /\ loading' = FALSE
  /\ Return(p)
  /\ UNCHANGED <<selectedImages, extractedTexts>>

\* lines 90-96 and 100-101: result.assets is an array, which is truthy even
\* when empty.  The images are stored and one recognize call per asset is
\* made; with no asset Promise.all is resolved already, so the (empty) texts
\* are stored and the finally runs before any other event
pickImagesAssets(p, as) ==
  /\ selectedImages' = as
  /\ IF Len(as) = 0
     THEN /\ extractedTexts' = PromiseAllTexts(as)
          /\ effects' = <<>>
          /\ loading' = FALSE
          /\ Return(p)
     ELSE /\ effects' = [k \in 1..Len(as) |->
                           Effect("recognize", <<as[k].uri>>)]
          /\ pc' = [pc EXCEPT ![p] = "ocr"]
          /\ assets' = [assets EXCEPT ![p] = as]
          /\ done' = [done EXCEPT ![p] = {}]
          /\ UNCHANGED <<extractedTexts, loading, readGranted>>

\* lines 83-96 and 100-101: launchImageLibrary resolved without assets
\* (cancel), rejected (error), or resolved with an array of assets
PickerReturn(p, res) ==
  /\ pc[p] = "picker"
  /\ UNCHANGED platform
  /\ IF res.kind = "cancel"
     THEN /\ event' = "pickerCancel"
          /\ pickImagesNoAssets(p)
     ELSE IF res.kind = "error"
     THEN /\ event' = "pickerError"
          /\ pickImagesCatch(p)
          /\ UNCHANGED <<selectedImages, extractedTexts>>
     ELSE /\ event' = "pickerAssets"
          /\ pickImagesAssets(p, res.assets)

\* lines 92-95 and 100-101: every processImage promise has resolved
pickImagesStore(p) ==
  /\ extractedTexts' = PromiseAllTexts(assets[p])
  /\ effects' = <<>>
  /\ loading' = FALSE
  /\ Return(p)
  /\ UNCHANGED selectedImages

\* processImage swallowing the error: the failed image gets an empty text
\* and the batch is stored
pickImagesOcrSubstituted(p) ==
  /\ extractedTexts' = [k \in 1..Len(assets[p]) |->
                          IF k \in done[p] THEN processImage(assets[p][k].uri) ELSE ""]
  /\ effects' = <<>>
  /\ loading' = FALSE
  /\ Return(p)
  /\ UNCHANGED selectedImages

\* lines 68-71 and 97-101: a recognize call rejected, so processImage throws,
\* Promise.all rejects and pickImages ends in its catch
pickImagesOcrFailed(p) ==
  /\ pickImagesCatch(p)
  /\ UNCHANGED <<selectedImages, extractedTexts>>

\* lines 60-72 and 92-101: the recognize call for assets[i] settles
OcrReturn(p, i, ok) ==
  /\ pc[p] = "ocr"
  /\ i \in (1..Len(assets[p])) \ done[p]
  /\ UNCHANGED platform
  /\ IF ~ok
     THEN /\ event' = "ocrError"
          /\ pickImagesOcrFailed(p)
     ELSE IF done[p] \cup {i} = 1..Len(assets[p])
     THEN /\ event' = "ocrStored"
          /\ pickImagesStore(p)
     ELSE /\ event' = "ocr"
          /\ done' = [done EXCEPT ![p] = done[p] \cup {i}]
          /\ effects' = <<>>
          /\ UNCHANGED <<selectedImages, extractedTexts, loading, pc,
                         readGranted, assets>>

\* the empty-selection check placed after setLoading(true) and outside the try
exportToPDFEmptyStuck ==
  /\ effects' = <<AlertNoImages>>
  /\ loading' = TRUE
  /\ UNCHANGED <<selectedImages, extractedTexts, pc, readGranted, assets, done>>

\* lines 151-154 and 183-184: nothing is selected
exportToPDFEmpty ==
  /\ effects' = <<AlertNoImages>>
  /\ loading' = FALSE
  /\ UNCHANGED <<selectedImages, extractedTexts, pc, readGranted, assets, done>>

\* exportToPDF emptying the selection once the document is handed over
exportToPDFConsuming(p) ==
  IF Len(selectedImages) = 0
  THEN exportToPDFEmpty
  ELSE /\ loading' = TRUE
       /\ pc' = [pc EXCEPT ![p] = "convert"]
       /\ effects' = <<Effect("convert", generateHTMLContent(selectedImages))>>
       /\ selectedImages' = <<>>
       /\ UNCHANGED <<extractedTexts, readGranted, assets, done>>

\* lines 149-169: exportToPDF up to its first suspension
exportToPDF(p) ==
  IF Len(selectedImages) = 0
  THEN exportToPDFEmpty
  ELSE /\ loading' = TRUE
       /\ pc' = [pc EXCEPT ![p] = "convert"]
       /\ effects' = <<Effect("convert", generateHTMLContent(selectedImages))>>
       /\ UNCHANGED <<selectedImages, extractedTexts, readGranted, assets, done>>

\* line 212: disabled={loading || !selectedImages.length}
ExportDisabled == loading \/ Len(selectedImages) = 0

\* lines 209-215: a press on the export control
PressExport ==
  /\ event' = "pressExport"
  /\ UNCHANGED platform
  /\ IF ExportDisabled THEN Ignored
     ELSE \E p \in Procs : IsFree(p) /\ exportToPDF(p)

\* the clipboard write made before the notice
exportToPDFClipboardFirst(filePath, clipOk) ==
  IF filePath = ""
  THEN <<>>
  ELSE <<Effect("clipboard", <<filePath>>)>>
       \o (IF clipOk THEN <<AlertSuccess(filePath)>> ELSE <<AlertExportError>>)

\* lines 171-178 and 180-182: what follows a resolved convert; clipOk is
\* whether Clipboard.setString returns
exportToPDFAfterConvert(filePath, clipOk) ==
  IF filePath = ""
  THEN <<>>
  ELSE <<AlertSuccess(filePath), Effect("clipboard", <<filePath>>)>>
       \o (IF clipOk THEN <<>> ELSE <<AlertExportError>>)

\* lines 169-185: RNHTMLtoPDF.convert rejected, or resolved with a filePath
\* (possibly none)
ConvertReturn(p, res, clipOk) ==
  /\ pc[p] = "convert"
  /\ UNCHANGED platform
  /\ event' = IF res.rejected THEN "convertError"
              ELSE IF res.filePath = "" THEN "convertNoPath"
              ELSE IF clipOk THEN "convertDone" ELSE "clipboardError"
  /\ effects' = IF res.rejected THEN <<AlertExportError>>
                ELSE exportToPDFAfterConvert(res.filePath, clipOk)
  /\ loading' = FALSE
  /\ Return(p)
  /\ UNCHANGED <<selectedImages, extractedTexts>>

\* line 218: the clear control is rendered only with texts to show
ClearVisible == Len(extractedTexts) > 0

\* clearResults without its second line
clearResultsImagesOnly ==
  /\ selectedImages' = <<>>
  /\ effects' = <<>>
  /\ UNCHANGED <<extractedTexts, loading, pc, readGranted, assets, done>>

\* lines 188-191
clearResults ==
  /\ selectedImages' = <<>>
  /\ extractedTexts' = <<>>
  /\ effects' = <<>>
  /\ UNCHANGED <<loading, pc, readGranted, assets, done>>

\* lines 222-227: a press on the clear control
PressClear ==
  /\ ClearVisible
  /\ event' = "pressClear"
  /\ UNCHANGED platform
  /\ clearResults

PermissionOutcomes == PermissionResults \cup {"error"}
PickerResult(k, as) == [kind |-> k, assets |-> as]
\* what launchImageLibrary can settle with: no assets field (the user
\* cancelled), a rejection, or an array of assets, the empty array included
PickerOutcomes ==
  {PickerResult("cancel", <<>>), PickerResult("error", <<>>)}
  \cup {PickerResult("assets", as) : as \in Selections(ImageSet)}
ConvertResult(rej, path) == [rejected |-> rej, filePath |-> path]
ConvertOutcomes ==
  {ConvertResult(TRUE, "")} \cup {ConvertResult(FALSE, f) : f \in FilePaths \cup {""}}

Next ==
  \/ PressPick
  \/ PressExport
  \/ PressClear
  \/ \E p \in Procs, r \in PermissionOutcomes : PermissionReadReturn(p, r)
  \/ \E p \in Procs, w \in PermissionOutcomes : PermissionWriteReturn(p, w)
  \/ \E p \in Procs, res \in PickerOutcomes : PickerReturn(p, res)
  \/ \E p \in Procs, i \in 1..Cardinality(ImageSet), ok \in BOOLEAN :
       OcrReturn(p, i, ok)
  \/ \E p \in Procs, res \in ConvertOutcomes, clipOk \in BOOLEAN :
       ConvertReturn(p, res, clipOk)


Spec == Init /\ [][Next]_vars

(***************************************************************************)
(* Every collaborator call returns: a suspended invocation is resumed.     *)
(***************************************************************************)
Resume(p) ==
  \/ \E r \in PermissionOutcomes : PermissionReadReturn(p, r)
  \/ \E w \in PermissionOutcomes : PermissionWriteReturn(p, w)
  \/ \E res \in PickerOutcomes : PickerReturn(p, res)
  \/ \E i \in 1..Cardinality(ImageSet), ok \in BOOLEAN : OcrReturn(p, i, ok)
  \/ \E res \in ConvertOutcomes, clipOk \in BOOLEAN : ConvertReturn(p, res, clipOk)

FairSpec == Spec /\ \A p \in Procs : WF_vars(Resume(p))

(***************************************************************************)
(* The handlers called directly, as a caller of the onPress props would:   *)
(* the controls' disabled and rendering conditions do not apply.           *)
(***************************************************************************)
CallPickImages ==
  /\ event' = "pickImages"
  /\ UNCHANGED platform
  /\ \E p \in Procs : IsFree(p) /\ pickImages(p)

\* exportToPDF with no image selected returns without suspending (lines
\* 151-154), so it needs no slot; otherwise the invocation takes a free one
CallExportToPDF ==
  /\ event' = "exportToPDF"
  /\ UNCHANGED platform
  /\ IF Len(selectedImages) = 0
     THEN exportToPDF(1)
     ELSE \E p \in Procs : IsFree(p) /\ exportToPDF(p)

CallClearResults ==
  /\ event' = "clearResults"
  /\ UNCHANGED platform
  /\ clearResults

NextHandlers ==
  \/ CallPickImages
  \/ CallExportToPDF
  \/ CallClearResults
  \/ \E p \in Procs : Resume(p)

SpecHandlers == Init /\ [][NextHandlers]_vars

(***************************************************************************)
(* generateHTMLContent applied to a list of images.                        *)
(***************************************************************************)
InitCompose ==
  /\ platform \in {"android", "ios"}
  /\ selectedImages \in SeqsUpTo(AllImages, MaxPages)
  /\ extractedTexts = PromiseAllTexts(selectedImages)
  /\ loading = FALSE
  /\ pc = [p \in Procs |-> "idle"]
  /\ readGranted = [p \in Procs |-> "none"]
  /\ assets = [p \in Procs |-> <<>>]
  /\ done = [p \in Procs |-> {}]
  /\ event = "init"
  /\ effects = <<>>

\* line 158: htmlContent = generateHTMLContent()
Compose ==
  /\ event = "init"
  /\ event' = "compose"
  /\ effects' = <<Effect("html", generateHTMLContent(selectedImages))>>
  /\ UNCHANGED <<platform, selectedImages, extractedTexts, loading, pc,
                 readGranted, assets, done>>

SpecCompose == InitCompose /\ [][Compose]_vars

(***************************************************************************)
(* processImage applied to a result of recognize.                          *)
(***************************************************************************)
OcrLines == {"A", "B", "", "C D"}
\* what recognize can resolve with in SpecNormalize
OcrResults ==
  {OcrArray(ls) : ls \in SeqsUpTo(OcrLines, MaxLines)}
  \cup {OcrString(str) : str \in OcrLines}
  \cup {OcrOther}

\* the strings a result of recognize holds
OcrStrings(results) ==
  IF results.shape = "array" THEN results.lines
  ELSE IF results.shape = "string" THEN <<results.str>>
  ELSE <<>>

\* lines 62-67: recognize resolved with results, processImage returns
ProcessImage(results) ==
  /\ event = "init"
  /\ event' = "processImage"
  /\ effects' = <<Effect(results.shape, OcrStrings(results)),
                  Effect("text", <<Normalize(results)>>)>>
  /\ UNCHANGED <<platform, selectedImages, extractedTexts, loading, pc,
                 readGranted, assets, done>>

NextNormalize == \E results \in OcrResults : ProcessImage(results)

SpecNormalize == Init /\ [][NextNormalize]_vars

(***************************************************************************)
(* Properties.                                                             *)
(***************************************************************************)
\* the OCR texts of a list of images, index by index
TextsOf(images) == [k \in 1..Len(images) |-> processImage(images[k].uri)]

\* C1: in every reachable state the texts are empty or as many as the images.
C1_TextsEmptyOrAligned ==
  Len(extractedTexts) = 0 \/ Len(extractedTexts) = Len(selectedImages)

\* C2: at most one pick or export pipeline is in flight at any time, the
\* permission request of a pick included.
C2_OneInFlight == Cardinality(InFlight) <= 1

\* C3: loading is true whenever a pick or export pipeline is between its
\* trigger and its completion.
C3_BusyWhenInFlight == InFlight # {} => loading

\* C4: a press on the pick or the export control while loading is true changes
\* neither the state nor any invocation, and calls no collaborator.
C4_PressWhileBusyIsNoOp ==
  [][(loading /\ event' \in {"pressPick", "pressExport"})
       => /\ effects' = <<>>
          /\ UNCHANGED <<selectedImages, extractedTexts, loading, pc,
                         readGranted, assets, done>>]_vars

\* C4 witness: the pick control was pressed while a picker call was pending,
\* and the press went nowhere.
C4_Witness ==
  /\ event = "pressPick"
  /\ loading
  /\ effects = <<>>
  /\ \E p \in Procs : pc[p] = "picker"

\* C5: a step that replaces the images replaces the texts with the texts of
\* these images in the same step; no state holds new images with old texts.
C5_ReplacedTogether ==
  [][selectedImages' # selectedImages
       => extractedTexts' = TextsOf(selectedImages')]_vars

\* C6: right after a batch has stored its texts, texts[i] is the normalized
\* OCR result of images[i] for every i.
C6_StoredTextsAligned ==
  event = "ocrStored" => extractedTexts = TextsOf(selectedImages)

\* C7: if every collaborator call returns, every invocation in flight ends,
\* and when it has ended loading is false.
C7_PipelinesFinish ==
  \A p \in Procs : (pc[p] # "idle") ~> (pc[p] = "idle" /\ ~loading)

\* C7 witness: a pick whose extraction failed has ended, with nothing in
\* flight and loading false.
C7_Witness ==
  /\ event = "ocrError"
  /\ InFlight = {}
  /\ ~loading

\* C8: exportToPDF called with no images shows the empty-selection notice and
\* nothing else (no convert call, no clipboard write), leaves images and texts
\* as they are, and leaves loading false.
C8_EmptyExport ==
  [][(event' = "exportToPDF" /\ Len(selectedImages) = 0)
       => /\ effects' = <<AlertNoImages>>
          /\ loading' = FALSE
          /\ UNCHANGED <<selectedImages, extractedTexts, pc>>]_vars

\* C8 witness: exportToPDF was called with no images while another
\* invocation was in flight, and only the notice came of it.
C8_Witness ==
  /\ event = "exportToPDF"
  /\ Len(selectedImages) = 0
  /\ effects = <<AlertNoImages>>
  /\ InFlight # {}

\* C9: when a recognize call of a batch fails, the step that handles it stores
\* nothing (the texts keep their value), shows the processing-error notice,
\* and ends the invocation, so the batch never stores texts.
C9_FailedBatchAborted ==
  [][event' = "ocrError"
       => /\ extractedTexts' = extractedTexts
          /\ effects' = <<AlertPickError>>
          /\ \E p \in Procs :
               pc[p] = "ocr" /\ pc'[p] = "idle" /\ assets'[p] = <<>>]_vars

\* C9 witness: a batch of two images failed, and the one text of the earlier
\* pick is still stored.
C9_Witness ==
  /\ event = "ocrError"
  /\ Len(selectedImages) = 2
  /\ Len(extractedTexts) = 1
  /\ effects = <<AlertPickError>>

RECURSIVE ParsePages(_)
\* the page blocks of a document, in document order: the MIME type and the
\* payload of each block's data URI
ParsePages(doc) ==
  IF doc = <<>> THEN <<>>
  ELSE IF /\ Head(doc) = PageOpen
          /\ Len(doc) >= 5
          /\ doc[3] = PageMid
          /\ doc[5] = PageClose
       THEN <<[type |-> doc[2], base64 |-> doc[4]]>>
            \o ParsePages(SubSeq(doc, 6, Len(doc)))
       ELSE ParsePages(Tail(doc))

\* the chunks of a document that open a page block
PageOpens(doc) == {i \in 1..Len(doc) : doc[i] = PageOpen}

\* C10: the composed document holds exactly one page block per image, in
\* input order, and the k-th block's data URI carries the MIME type and the
\* base64 payload of the k-th image.
C10_OnePagePerImage ==
  event = "compose" =>
    LET doc == effects[1].arg
        pages == ParsePages(doc)
    IN /\ Cardinality(PageOpens(doc)) = Len(selectedImages)
       /\ Len(pages) = Len(selectedImages)
       /\ \A k \in 1..Len(selectedImages) :
            /\ pages[k].type = selectedImages[k].type
            /\ pages[k].base64 = selectedImages[k].base64

\* C10 witness: a document was composed from three images of two MIME types.
C10_Witness ==
  /\ event = "compose"
  /\ Len(selectedImages) = 3
  /\ selectedImages[1].type # selectedImages[2].type
  /\ selectedImages[1].base64 # selectedImages[3].base64
  /\ Len(ParsePages(effects[1].arg)) = 3

\* the page-break-after a renderer computes for a page block of a document:
\* the .page rule applies to every block, the .page:last-child rule, where
\* the document has it, overrides it for the block that ends the body
BreakAfter(doc, k, n) ==
  IF k = n /\ \E i \in 1..Len(doc) : doc[i] = CssPageLastChild THEN "auto"
  ELSE IF \E i \in 1..Len(doc) : doc[i] = CssPage THEN "always"
  ELSE "auto"

\* the page blocks of a document after which the renderer forces a break
ForcedBreaks(doc) ==
  LET n == Len(ParsePages(doc))
  IN {k \in 1..n : BreakAfter(doc, k, n) = "always"}

\* C11: a document composed from N images forces a break after every page
\* but the last (max(N-1, 0) breaks, none trailing); from no images it is the
\* head and the tail with no page.
C11_BreaksBetweenPages ==
  event = "compose" =>
    LET doc == effects[1].arg
        n == Len(selectedImages)
    IN /\ ForcedBreaks(doc) = 1..(n - 1)
       /\ Cardinality(ForcedBreaks(doc)) = IF n = 0 THEN 0 ELSE n - 1
       /\ n = 0 => doc = HtmlHead \o <<HtmlTail>> /\ ParsePages(doc) = <<>>

\* C11 witness: a document was composed from three images, with breaks after
\* the first and the second page only.
C11_Witness ==
  /\ event = "compose"
  /\ Len(selectedImages) = 3
  /\ Head(effects[1].arg) = HeadOpen
  /\ ForcedBreaks(effects[1].arg) = {1, 2}

RECURSIVE LinesText(_)
\* the text of a list of lines, built from the last line back: the lines
\* before it, a newline, the line
LinesText(ls) ==
  IF ls = <<>> THEN ""
  ELSE IF Len(ls) = 1 THEN ls[1]
  ELSE LinesText(SubSeq(ls, 1, Len(ls) - 1)) \o "\n" \o ls[Len(ls)]

RECURSIVE SumLen(_)
\* the characters of a list of strings
SumLen(ls) == IF ls = <<>> THEN 0 ELSE Len(Head(ls)) + SumLen(Tail(ls))

\* C12: processImage returns, for an array of lines, the lines in order with
\* a newline between two of them (the empty string for no line); for a
\* string, the string; for any other result, the empty string.
C12_NormalizedByShape ==
  event = "processImage" =>
    LET shape == effects[1].kind
        given == effects[1].arg
        text == effects[2].arg[1]
    IN /\ shape = "array" =>
            /\ text = LinesText(given)
            /\ Len(text) = SumLen(given) + (IF given = <<>> THEN 0 ELSE Len(given) - 1)
            /\ given = <<>> => text = ""
            /\ given = <<"A", "B">> => text = "A\nB"
       /\ shape = "string" => text = given[1]
       /\ shape = "other" => text = ""

\* C12 witness: processImage returned "A\nB" for the lines A and B.
C12_Witness ==
  /\ event = "processImage"
  /\ effects[1] = Effect("array", <<"A", "B">>)
  /\ effects[2].arg = <<"A\nB">>

RequestRead == Effect("permission", <<"READ_EXTERNAL_STORAGE">>)
RequestWrite == Effect("permission", <<"WRITE_EXTERNAL_STORAGE">>)
CallPicker == Effect("picker", <<>>)
\* what a step shows of the gate's result: pickImages goes on to the picker
\* (true), or shows the permission notice and ends (false)
GateTrue(p) == pc'[p] = "picker" /\ effects' = <<CallPicker>>
GateFalse(p) == pc'[p] = "idle" /\ effects' = <<AlertPermission>>

\* C13: on android the gate requests read, then write, and returns true
\* exactly when both requests came back granted; a denial, a dismissal or an
\* error of either request gives false and never the error path of the
\* caller. Elsewhere it returns true and requests nothing.
C13_PermissionGate ==
  [][/\ (event' = "pressPick" /\ ~loading /\ platform = "android")
          => effects' = <<RequestRead>>
     /\ (event' = "pressPick" /\ ~loading /\ platform # "android")
          => \E p \in Procs : pc[p] = "idle" /\ GateTrue(p)
     /\ \A p \in Procs, r \in PermissionOutcomes :
          PermissionReadReturn(p, r)
            => IF r = "error" THEN GateFalse(p)
               ELSE pc'[p] = "permWrite" /\ effects' = <<RequestWrite>>
     /\ \A p \in Procs, w \in PermissionOutcomes :
          PermissionWriteReturn(p, w)
            => IF readGranted[p] = "granted" /\ w = "granted"
               THEN GateTrue(p) ELSE GateFalse(p)]_vars

\* C13 witness: on android a gate returned false and its pick has ended.
C13_Witness ==
  /\ platform = "android"
  /\ event = "permission"
  /\ effects = <<AlertPermission>>
  /\ InFlight = {}
  /\ ~loading

\* C14: the picker is called only by a pick whose gate has just returned
\* true; a pick whose gate returned false shows the permission notice, calls
\* nothing else, ends, and leaves images and texts as they are.
C14_PickerOnlyAfterGate ==
  [][/\ (\E k \in 1..Len(effects') : effects'[k] = CallPicker)
          => \/ event' = "pressPick" /\ platform # "android"
             \/ /\ event' = "permission"
                /\ \E p \in Procs : /\ pc[p] = "permWrite"
                                    /\ readGranted[p] = "granted"
                                    /\ pc'[p] = "picker"
     /\ (\E k \in 1..Len(effects') : effects'[k] = AlertPermission)
          => /\ effects' = <<AlertPermission>>
             /\ UNCHANGED <<selectedImages, extractedTexts>>
             /\ \E p \in Procs : /\ pc[p] \in {"permRead", "permWrite"}
                                 /\ pc'[p] = "idle"
             /\ \A p \in Procs : pc'[p] \in {"picker", "ocr"} => pc'[p] = pc[p]]_vars

\* C14 witness: a gate returned false while images and texts of an earlier
\* pick were stored.
C14_Witness ==
  /\ event = "permission"
  /\ effects = <<AlertPermission>>
  /\ Len(selectedImages) > 0
  /\ Len(extractedTexts) > 0

\* C15: when the picker resolves without assets (the user cancelled), the
\* pick ends with images and texts as they were, no OCR call, no notice, and
\* loading false.
C15_CancelIsNoOp ==
  [][event' = "pickerCancel"
       => /\ UNCHANGED <<selectedImages, extractedTexts>>
          /\ effects' = <<>>
          /\ loading' = FALSE
          /\ \E p \in Procs : pc[p] = "picker" /\ pc'[p] = "idle"
          /\ \A p \in Procs : pc'[p] = "ocr" => pc[p] = "ocr"]_vars

\* C15 witness: a pick was cancelled while images and texts of an earlier pick
\* were stored.
C15_Witness ==
  /\ event = "pickerCancel"
  /\ Len(selectedImages) > 0
  /\ Len(extractedTexts) = Len(selectedImages)
  /\ ~loading

\* C16: when convert resolves with a file path, the success notice with
\* that path is shown first and the clipboard write of that same path is
\* made second.
C16_NoticeThenClipboard ==
  [][\A p \in Procs, res \in ConvertOutcomes, clipOk \in BOOLEAN :
       (ConvertReturn(p, res, clipOk) /\ ~res.rejected /\ res.filePath # "")
         => /\ Len(effects') >= 2
            /\ effects'[1].kind = "alert"
            /\ effects'[1].arg[1] = "Thanh cong"
            /\ effects'[1].arg[Len(effects'[1].arg)] = res.filePath
            /\ effects'[2] = Effect("clipboard", <<res.filePath>>)]_vars

\* C16 witness: an export ended with the notice and the clipboard write of
\* the path convert returned.
C16_Witness ==
  /\ event = "convertDone"
  /\ effects = <<AlertSuccess("/Documents/images_2.pdf"),
                 Effect("clipboard", <<"/Documents/images_2.pdf">>)>>

\* C17: clearResults leaves images and texts empty, and a second clearResults
\* right after the first changes nothing.
C17_ClearIdempotent ==
  [][event' = "clearResults"
       => /\ selectedImages' = <<>>
          /\ extractedTexts' = <<>>
          /\ event = "clearResults" => UNCHANGED vars]_vars

\* C17 witness: clearResults was called with an extraction in flight, and
\* images and texts are empty.
C17_Witness ==
  /\ event = "clearResults"
  /\ selectedImages = <<>>
  /\ extractedTexts = <<>>
  /\ \E p \in Procs : pc[p] = "ocr"

\* the notices among the effects of a step
Alerts(es) == {k \in 1..Len(es) : es[k].kind = "alert"}

\* C18: an export whose convert returned a file path shows one notice, and
\* never the export-failure notice, whatever the clipboard write does.
C18_ClipboardFailureNotMasking ==
  event \in {"convertDone", "clipboardError"}
    => /\ \A k \in 1..Len(effects) : effects[k] # AlertExportError
       /\ Cardinality(Alerts(effects)) = 1

\* C19: a press on the clear control takes effect only with nothing in flight
\* and loading false.
C19_ClearOnlyWhenIdle ==
  [][event' = "pressClear" => ~loading /\ InFlight = {}]_vars

\* C20: no step of an export (its start, empty selection included, and the
\* return of convert in all its outcomes) changes images or texts.
C20_ExportKeepsSelection ==
  [][event' \in {"exportToPDF", "convertError", "convertNoPath", "convertDone",
                 "clipboardError"}
       => UNCHANGED <<selectedImages, extractedTexts>>]_vars

\* C20 witness: an export ended in a clipboard failure with images and texts
\* stored.
C20_Witness ==
  /\ event = "clipboardError"
  /\ Len(selectedImages) > 0
  /\ Len(extractedTexts) > 0
  /\ ~loading

====
